---- MODULE Spec2Model ----
(***************************************************************************)
(* The abstract syntax tree of src/frontend/parser/ast.rs and its textual  *)
(* rendering (the Debug implementations of Stat, Expr and Const).          *)
(*                                                                         *)
(* Text is a TLA+ string; the formatter's write calls are concatenations.  *)
(* The rendering modelled is the plain `{:?}` form (not the pretty `{:#?}` *)
(* form).  A node is a record [loc, val]; a payload is a record with a     *)
(* `tag` naming the enum variant and one field per variant component.      *)
(***************************************************************************)
EXTENDS Integers, Sequences, FiniteSets, TLC

VARIABLES
    val,    \* the Stat_ payload the producer has assembled (NoVal: none yet)
    loc,    \* the Loc the producer passes to Stat::new
    stat,   \* the Stat node returned by Stat::new (NoStat: not built yet)
    shown,  \* the node the last fmt call rendered: [kind, node] (kind "none": no call yet)
    out,    \* the text the last fmt call wrote
    lit,    \* the key/value pairs of the dict literal the producer last read
    other,  \* a second Stat node, for comparing two renderings
    out2    \* the text rendered for `other`

vars == <<val, loc, stat, shown, out, lit, other, out2>>

----------------------------------------------------------------------------
(* Bounds of the model.                                                    *)

\* Longest child sequence (arguments, elements, body statements, fields).
MaxLen == 2
\* Locations are 0..MaxLoc (Loc is opaque to ast.rs).
MaxLoc == 1
\* Most condition/body pairs of an `if` chain.
MaxPairs == 2

Locs == 0 .. MaxLoc

----------------------------------------------------------------------------
(* Option<T>                                                               *)

None == [some |-> FALSE]
Some(x) == [some |-> TRUE, v |-> x]

----------------------------------------------------------------------------
(* enum Stat_, struct Stat                                                 *)

Stat_Expr(e) == [tag |-> "Expr", expr |-> e]
Stat_Continue == [tag |-> "Continue"]
Stat_Break == [tag |-> "Break"]
Stat_Return(oe) == [tag |-> "Return", expr |-> oe]
Stat_Class(name, fields, methods) ==
    [tag |-> "Class", name |-> name, fields |-> fields, methods |-> methods]
Stat_Loop(cond, body) == [tag |-> "Loop", cond |-> cond, body |-> body]
Stat_For(vs, iter, body) == [tag |-> "For", vars |-> vs, iter |-> iter, body |-> body]
Stat_Error == [tag |-> "Error"]

----------------------------------------------------------------------------
(* enums OpInfix, OpPrefix, OpPostfix: a tag is the variant's name, which  *)
(* is also what the derived Debug writes.                                  *)

OpInfix ==
    {"Assign", "Range", "Or", "And", "Eq", "Ne", "Le", "Lt", "Ge", "Gt", "Plus",
     "Minus", "Mul", "Div", "DivFloor", "Mod", "Exp", "Comma", "Member"}
OpPrefix == {"Not", "Neg"}
OpPostfix == {"Index", "Call"}

OpDebug(op) == op

----------------------------------------------------------------------------
(* enum Expr_, struct Expr, enum Const                                     *)

Expr_Block(b) == [tag |-> "Block", stats |-> b]
Expr_If(v) == [tag |-> "If", exprs |-> v]
Expr_Prefix(op, e) == [tag |-> "Prefix", op |-> op, expr |-> e]
Expr_Call(e, args) == [tag |-> "Call", expr |-> e, args |-> args]
Expr_Index(e, i) == [tag |-> "Index", expr |-> e, index |-> i]
Expr_Infix(op, e1, e2) == [tag |-> "Infix", op |-> op, lhs |-> e1, rhs |-> e2]
Expr_Def(name, decl, body, binds) ==
    [tag |-> "Def", name |-> name, decl |-> decl, body |-> body, binds |-> binds]
Expr_Id(id) == [tag |-> "Id", id |-> id]
Expr_Parentheses(e) == [tag |-> "Parentheses", expr |-> e]
Expr_Const(c) == [tag |-> "Const", const |-> c]
Expr_Error == [tag |-> "Error"]

\* struct Expr { loc, val }: built by a struct literal, there is no constructor.
Expr(l, v) == [loc |-> l, val |-> v]

Const_Int(i) == [tag |-> "Int", int |-> i]
\* A float literal whole + tenths/10 with whole >= 0 and tenths in 0..9.
Const_Float(whole, tenths) == [tag |-> "Float", whole |-> whole, tenths |-> tenths]
Const_Str(s) == [tag |-> "Str", str |-> s]
Const_Bool(b) == [tag |-> "Bool", bool |-> b]
Const_List(l) == [tag |-> "List", elems |-> l]
Const_Set(s) == [tag |-> "Set", elems |-> s]
Const_Dict(keys, vals) == [tag |-> "Dict", keys |-> keys, vals |-> vals]
Const_Nil == [tag |-> "Nil"]

----------------------------------------------------------------------------
(* The formatting primitives of the standard library the impls call.       *)

Min(a, b) == IF a <= b THEN a ELSE b

RECURSIVE Entries(_)
\* The entries of a debug_list/debug_set/debug_map or the fields of a
\* debug_tuple: each one written as it comes, ", " before all but the first.
Entries(texts) ==
    IF Len(texts) = 0 THEN ""
    ELSE IF Len(texts) = 1 THEN texts[1]
    ELSE texts[1] \o ", " \o Entries(Tail(texts))

\* Formatter::debug_tuple(name).field(..)...finish(): the bare name when there
\* is no field; `(x,)` for a single field under the empty name.
DebugTuple(name, fields) ==
    IF Len(fields) = 0 THEN name
    ELSE name \o "(" \o Entries(fields)
              \o (IF Len(fields) = 1 /\ name = "" THEN "," ELSE "") \o ")"

\* debug_list as it would be if writing stopped at the first Error entry.
\* C3 does not hold of this variant.
DebugListStopAtError(texts) ==
    LET errs == {i \in 1 .. Len(texts) : texts[i] \in {"error", "Error"}}
        stop == IF errs = {} THEN Len(texts)
                ELSE (CHOOSE i \in errs : \A j \in errs : i <= j) - 1
    IN  "[" \o Entries(SubSeq(texts, 1, stop)) \o "]"

\* Formatter::debug_list().entries(..).finish()
DebugList(texts) == "[" \o Entries(texts) \o "]"

RECURSIVE DedupTexts(_)
\* The texts with every repetition of an earlier one left out.
DedupTexts(texts) ==
    IF Len(texts) = 0 THEN <<>>
    ELSE LET rest == DedupTexts(SubSeq(texts, 1, Len(texts) - 1))
             last == texts[Len(texts)]
         IN  IF last \in {rest[i] : i \in DOMAIN rest} THEN rest ELSE Append(rest, last)

\* debug_set as it would be if equal entries were written once.
\* C9 does not hold of this variant.
DebugSetDedup(texts) == "{" \o Entries(DedupTexts(texts)) \o "}"

\* Formatter::debug_set().entries(..).finish(): every entry is written, an
\* entry equal to an earlier one too.
DebugSet(texts) == "{" \o Entries(texts) \o "}"

\* zip as it would be if it ran to the end of the longer side, the missing
\* side written as None.  C10 does not hold of this
\* variant.
ZipLongest(ks, vs) ==
    [i \in 1 .. (IF Len(ks) >= Len(vs) THEN Len(ks) ELSE Len(vs)) |->
        <<IF i <= Len(ks) THEN ks[i] ELSE "None", IF i <= Len(vs) THEN vs[i] ELSE "None">>]

\* Iterator::zip: as many pairs as the shorter side has.
Zip(ks, vs) == [i \in 1 .. Min(Len(ks), Len(vs)) |-> <<ks[i], vs[i]>>]

RECURSIVE DedupKeys(_)
\* The pairs with every pair whose key repeats an earlier key left out.
DedupKeys(pairs) ==
    IF Len(pairs) = 0 THEN <<>>
    ELSE LET rest == DedupKeys(SubSeq(pairs, 1, Len(pairs) - 1))
             last == pairs[Len(pairs)]
         IN  IF last[1] \in {rest[i][1] : i \in DOMAIN rest} THEN rest ELSE Append(rest, last)

\* debug_map as it would be if the entries went through a map first, so that
\* a repeated key is written once.  C6 does not hold of this
\* variant.
DebugMapDedup(pairs) ==
    "{" \o Entries([i \in 1 .. Len(DedupKeys(pairs)) |->
                        DedupKeys(pairs)[i][1] \o ": " \o DedupKeys(pairs)[i][2]]) \o "}"

\* Formatter::debug_map().entries(pairs).finish()
DebugMap(pairs) ==
    "{" \o Entries([i \in 1 .. Len(pairs) |-> pairs[i][1] \o ": " \o pairs[i][2]]) \o "}"

\* char::escape_debug on the characters the model's strings use.
EscapeChar(c) ==
    IF c = "\"" THEN "\\\"" ELSE IF c = "\\" THEN "\\\\" ELSE c

RECURSIVE EscapeDebug(_)
EscapeDebug(s) ==
    IF Len(s) = 0 THEN ""
    ELSE EscapeChar(SubSeq(s, 1, 1)) \o EscapeDebug(SubSeq(s, 2, Len(s)))

\* <str as Debug>::fmt: quoted and escaped.
StrDebug(s) == "\"" \o EscapeDebug(s) \o "\""

\* <str as Display>::fmt: the characters as they are.
StrDisplay(s) == s

Digit(d) == SubSeq("0123456789", d + 1, d + 1)

RECURSIVE NatDisplay(_)
NatDisplay(n) == IF n < 10 THEN Digit(n) ELSE NatDisplay(n \div 10) \o Digit(n % 10)

\* <i64 as Display>::fmt
I64Display(i) == IF i < 0 THEN "-" \o NatDisplay(-i) ELSE NatDisplay(i)

\* <f64 as Display>::fmt: the shortest decimal that reads back; no fraction
\* is written for a whole number.
F64Display(whole, tenths) ==
    NatDisplay(whole) \o (IF tenths = 0 THEN "" ELSE "." \o Digit(tenths))

\* <bool as Display>::fmt
BoolDisplay(b) == IF b THEN "true" ELSE "false"

\* <Option<T> as Debug>::fmt over the text of the value.
OptionDebug(o) == IF o.some THEN DebugTuple("Some", <<o.v>>) ELSE "None"

----------------------------------------------------------------------------
(* impl Debug for Stat, Expr, Const                                        *)

RECURSIVE StatFmt(_), ExprFmt(_), ConstFmt(_)

\* Vec<Expr>'s Debug as it would be if the trailing element of an odd-length
\* sequence (the else body of an `if` chain) were left out.
\* C4 does not hold of this variant.
VecExprDebugDropElse(v) ==
    "[" \o Entries([i \in 1 .. (Len(v) - (Len(v) % 2)) |-> ExprFmt(v[i])]) \o "]"

\* <Vec<Expr> as Debug>::fmt
VecExprDebug(v) == DebugList([i \in 1 .. Len(v) |-> ExprFmt(v[i])])

\* <Vec<Stat> as Debug>::fmt
VecStatDebug(b) == DebugList([i \in 1 .. Len(b) |-> StatFmt(b[i])])

\* <Vec<String> as Debug>::fmt
VecStringDebug(v) == DebugList([i \in 1 .. Len(v) |-> StrDebug(v[i])])

\* <Vec<(String, Expr)> as Debug>::fmt
BindsDebug(binds) ==
    DebugList([i \in 1 .. Len(binds) |->
        DebugTuple("", <<StrDebug(binds[i][1]), ExprFmt(binds[i][2])>>)])

\* The field names as they would be if the location were kept with the name.
\* C1 does not hold of this variant.
FieldNamesWithLoc(fields) ==
    [i \in 1 .. Len(fields) |-> fields[i][1] \o "@" \o I64Display(fields[i][2])]

\* The field names as they would be if a repeated name were kept once.
\* C7 does not hold of this variant.
FieldNamesDedup(fields) == DedupTexts([i \in 1 .. Len(fields) |-> fields[i][1]])

\* fields.iter().map(|x| &x.0).collect(): the names, the locations left out.
FieldNames(fields) == [i \in 1 .. Len(fields) |-> fields[i][1]]

\* The Def arm's fields as they would be if the name were never written.
\* C5 does not hold of this variant.
DefFieldsNoName(name, decl, body, binds) ==
    <<VecStringDebug(decl), VecStatDebug(body), BindsDebug(binds)>>

\* The fields the Def arm gives its debug_tuple.
DefFields(name, decl, body, binds) ==
    IF name.some
    THEN <<StrDebug(name.v), VecStringDebug(decl), VecStatDebug(body), BindsDebug(binds)>>
    ELSE <<VecStringDebug(decl), VecStatDebug(body), BindsDebug(binds)>>

StatFmt(s) ==
    LET v == s.val IN
    CASE v.tag = "Expr" -> DebugTuple("", <<ExprFmt(v.expr)>>)
      [] v.tag = "Continue" -> DebugTuple("continue", <<>>)
      [] v.tag = "Break" -> DebugTuple("break", <<>>)
      [] v.tag = "Return" ->
            IF v.expr.some THEN DebugTuple("return", <<ExprFmt(v.expr.v)>>)
            ELSE DebugTuple("return", <<>>)
      [] v.tag = "Error" -> DebugTuple("error", <<>>)
      [] v.tag = "Class" ->
            DebugTuple("class", <<StrDebug(v.name),
                                  VecStringDebug(FieldNames(v.fields)),
                                  VecExprDebug(v.methods)>>)
      [] v.tag = "Loop" ->
            DebugTuple("loop",
                <<OptionDebug(IF v.cond.some THEN Some(ExprFmt(v.cond.v)) ELSE None),
                  VecStatDebug(v.body)>>)
      [] v.tag = "For" ->
            DebugTuple("for", <<ExprFmt(v.vars), StrDebug("in"), ExprFmt(v.iter),
                                StrDebug("do"), VecStatDebug(v.body)>>)

ExprFmt(e) ==
    LET v == e.val IN
    CASE v.tag = "Block" -> VecStatDebug(v.stats)
      [] v.tag = "Prefix" -> DebugTuple("", <<OpDebug(v.op), ExprFmt(v.expr)>>)
      [] v.tag = "Infix" ->
            DebugTuple("", <<ExprFmt(v.lhs), OpDebug(v.op), ExprFmt(v.rhs)>>)
      [] v.tag = "Id" -> StrDebug(v.id)
      [] v.tag = "Const" -> ConstFmt(v.const)
      [] v.tag = "Error" -> "Error"
      [] v.tag = "If" -> DebugTuple("", <<StrDebug("if"), VecExprDebug(v.exprs)>>)
      [] v.tag = "Def" -> DebugTuple("def", DefFields(v.name, v.decl, v.body, v.binds))
      [] v.tag = "Parentheses" ->
            DebugTuple("", <<StrDebug("("), ExprFmt(v.expr), StrDebug(")")>>)
      [] v.tag = "Call" -> DebugTuple("Call", <<ExprFmt(v.expr), VecExprDebug(v.args)>>)
      [] v.tag = "Index" -> DebugTuple("Call", <<ExprFmt(v.expr), ExprFmt(v.index)>>)

ConstFmt(c) ==
    CASE c.tag = "Int" -> I64Display(c.int)
      [] c.tag = "Float" -> F64Display(c.whole, c.tenths)
      [] c.tag = "Str" -> StrDisplay(c.str)
      [] c.tag = "Bool" -> BoolDisplay(c.bool)
      [] c.tag = "List" -> DebugList([i \in 1 .. Len(c.elems) |-> ExprFmt(c.elems[i])])
      [] c.tag = "Nil" -> "nil"
      [] c.tag = "Set" -> DebugSet([i \in 1 .. Len(c.elems) |-> ExprFmt(c.elems[i])])
      [] c.tag = "Dict" ->
            DebugMap(Zip([i \in 1 .. Len(c.keys) |-> ExprFmt(c.keys[i])],
                         [i \in 1 .. Len(c.vals) |-> ExprFmt(c.vals[i])]))

----------------------------------------------------------------------------
(* Walking a tree: the nodes directly below a payload, and all of them.    *)

Range(f) == {f[i] : i \in DOMAIN f}

\* The expressions a Stat_ payload owns directly.
StatChildExprs(v) ==
    CASE v.tag = "Expr" -> {v.expr}
      [] v.tag = "Return" -> IF v.expr.some THEN {v.expr.v} ELSE {}
      [] v.tag = "Class" -> Range(v.methods)
      [] v.tag = "Loop" -> IF v.cond.some THEN {v.cond.v} ELSE {}
      [] v.tag = "For" -> {v.vars, v.iter}
      [] OTHER -> {}

\* The statements a Stat_ payload owns directly.
StatChildStats(v) ==
    CASE v.tag = "Loop" -> Range(v.body)
      [] v.tag = "For" -> Range(v.body)
      [] OTHER -> {}

\* The expressions a Const owns directly.
ConstChildExprs(c) ==
    CASE c.tag = "List" -> Range(c.elems)
      [] c.tag = "Set" -> Range(c.elems)
      [] c.tag = "Dict" -> Range(c.keys) \cup Range(c.vals)
      [] OTHER -> {}

\* The expressions an Expr_ payload owns directly.
ExprChildExprs(v) ==
    CASE v.tag = "If" -> Range(v.exprs)
      [] v.tag = "Prefix" -> {v.expr}
      [] v.tag = "Call" -> {v.expr} \cup Range(v.args)
      [] v.tag = "Index" -> {v.expr, v.index}
      [] v.tag = "Infix" -> {v.lhs, v.rhs}
      [] v.tag = "Def" -> {v.binds[i][2] : i \in DOMAIN v.binds}
      [] v.tag = "Parentheses" -> {v.expr}
      [] v.tag = "Const" -> ConstChildExprs(v.const)
      [] OTHER -> {}

\* The statements an Expr_ payload owns directly.
ExprChildStats(v) ==
    CASE v.tag = "Block" -> Range(v.stats)
      [] v.tag = "Def" -> Range(v.body)
      [] OTHER -> {}

RECURSIVE ExprsUnderStat(_), ExprsUnderExpr(_), StatsUnderStat(_), StatsUnderExpr(_)

\* Every expression node strictly below statement s / at or below expression e.
ExprsUnderStat(s) ==
    UNION {ExprsUnderExpr(e) : e \in StatChildExprs(s.val)}
        \cup UNION {ExprsUnderStat(t) : t \in StatChildStats(s.val)}
ExprsUnderExpr(e) ==
    {e} \cup UNION {ExprsUnderExpr(d) : d \in ExprChildExprs(e.val)}
        \cup UNION {ExprsUnderStat(t) : t \in ExprChildStats(e.val)}

\* Every statement node at or below statement s / below expression e.
StatsUnderStat(s) ==
    {s} \cup UNION {StatsUnderStat(t) : t \in StatChildStats(s.val)}
        \cup UNION {StatsUnderExpr(e) : e \in StatChildExprs(s.val)}
StatsUnderExpr(e) ==
    UNION {StatsUnderStat(t) : t \in ExprChildStats(e.val)}
        \cup UNION {StatsUnderExpr(d) : d \in ExprChildExprs(e.val)}

----------------------------------------------------------------------------
(* impl Stat                                                               *)

\* Whether every dict below payload v has as many keys as values.
Balanced(v) ==
    \A e \in ExprsUnderStat([loc |-> 0, val |-> v]) :
        (e.val.tag = "Const" /\ e.val.const.tag = "Dict")
            => Len(e.val.const.keys) = Len(e.val.const.vals)

\* Stat::new as it would be if it validated its payload: a payload holding an
\* unbalanced dict is replaced by Error.  C8 does not hold of this
\* variant.
StatNewValidating(v, l) == [loc |-> l, val |-> IF Balanced(v) THEN v ELSE Stat_Error]

\* Stat::new: no validation, the two arguments become the two fields.
StatNew(v, l) == [loc |-> l, val |-> v]

----------------------------------------------------------------------------
(* The trees the producer (the parser, which is not part of ast.rs) hands  *)
(* over.  They are drawn from the families below: every variant of Stat_,  *)
(* Expr_ and Const, child sequences of every length up to MaxLen, Error    *)
(* nodes beside ordinary ones, and nestings three levels deep.             *)

SeqsUpTo(S, n) == UNION {[1 .. k -> S] : k \in 0 .. n}

Names == {"a", "b"}
IntLits == {-1, 0, 1, 12}
FloatLits == {<<1, 0>>, <<1, 5>>, <<0, 5>>}
StrLits == {"", "a", "1", "nil", "true", "Error", "\"a\"", "a\\b", "[]"}

Id_a == Expr(0, Expr_Id("a"))
Int_1 == Expr(MaxLoc, Expr_Const(Const_Int(1)))
Err == Expr(1, Expr_Error)

\* The operands, arguments and elements of the composite expressions.
Sibs == {Id_a, Int_1, Err}
ExprSeqs == SeqsUpTo(Sibs, MaxLen)

\* Every leaf expression at every location.
LeafPayloads ==
    {Expr_Id(n) : n \in Names} \cup {Expr_Error}
        \cup {Expr_Const(Const_Int(i)) : i \in IntLits}
        \cup {Expr_Const(Const_Float(x[1], x[2])) : x \in FloatLits}
        \cup {Expr_Const(Const_Str(s)) : s \in StrLits}
        \cup {Expr_Const(Const_Bool(b)) : b \in BOOLEAN}
        \cup {Expr_Const(Const_Nil)}
Leaves == {Expr(l, v) : l \in Locs, v \in LeafPayloads}

\* The statements of a body.
BodyStats ==
    {StatNew(Stat_Expr(Id_a), 0), StatNew(Stat_Error, 1), StatNew(Stat_Break, 0),
     StatNew(Stat_Return(Some(Int_1)), MaxLoc)}
Bodies == SeqsUpTo(BodyStats, MaxLen)

\* The dict literals of the source text, each a sequence of <<key, value>>.
KVPairs == {Id_a, Int_1} \X {Int_1, Err}
DictLits == SeqsUpTo(KVPairs, MaxLen)

\* The producer's dict literal: the keys and the values of the pairs written,
\* in the order written, none dropped.
DictLiteral(pairs) ==
    Const_Dict([i \in 1 .. Len(pairs) |-> pairs[i][1]],
               [i \in 1 .. Len(pairs) |-> pairs[i][2]])

\* `if` chains of up to MaxPairs condition/body pairs, with and without else.
IfSeqs == SeqsUpTo({Id_a, Err}, 2 * MaxPairs + 1)

Binds == {<<>>, <<<<"c", Int_1>>>>, <<<<"c", Err>>, <<"c", Id_a>>>>}
DefPayloads ==
    {Expr_Def(n, d, <<StatNew(Stat_Return(None), 0)>>, <<>>) :
        n \in {None} \cup {Some(x) : x \in Names}, d \in SeqsUpTo(Names, MaxLen)}
    \cup {Expr_Def(n, <<"a">>, b, c) :
        n \in {None, Some("a")}, b \in Bodies, c \in Binds}

\* One variant applied to leaves.
Level1Payloads ==
    {Expr_Prefix(op, e) : op \in OpPrefix, e \in Sibs}
        \cup {Expr_Infix(op, Id_a, Int_1) : op \in OpInfix}
        \cup {Expr_Infix(op, e1, e2) : op \in {"Assign", "Plus"}, e1 \in Sibs, e2 \in Sibs}
        \cup {Expr_Parentheses(e) : e \in Sibs}
        \cup {Expr_Index(e, i) : e \in Sibs, i \in Sibs}
        \cup {Expr_Call(e, a) : e \in {Id_a, Err}, a \in ExprSeqs}
        \cup {Expr_If(v) : v \in IfSeqs}
        \cup {Expr_Const(Const_List(v)) : v \in ExprSeqs}
        \cup {Expr_Const(Const_Set(v)) : v \in ExprSeqs}
        \cup {Expr_Const(DictLiteral(p)) : p \in DictLits}
        \cup {Expr_Block(b) : b \in Bodies}
        \cup DefPayloads
Level1 == {Expr(0, v) : v \in Level1Payloads}

\* The composite expressions nested further.
Core ==
    {Expr(1, v) : v \in
        {Expr_Call(Id_a, <<Err, Int_1>>), Expr_If(<<Id_a, Err, Int_1>>),
         Expr_Const(Const_List(<<Err, Id_a>>)), Expr_Const(Const_Set(<<Id_a, Id_a>>)),
         Expr_Const(DictLiteral(<<<<Id_a, Err>>, <<Id_a, Int_1>>>>)),
         Expr_Block(<<StatNew(Stat_Error, 0), StatNew(Stat_Expr(Int_1), 1)>>),
         Expr_Def(Some("m"), <<"a">>, <<StatNew(Stat_Error, 1), StatNew(Stat_Return(Some(Id_a)), 0)>>, <<>>),
         Expr_Def(None, <<>>, <<>>, <<<<"c", Err>>>>),
         Expr_Infix("Member", Id_a, Err), Expr_Parentheses(Err)}}

Fields == {<<"a", 0>>, <<"a", MaxLoc>>, <<"b", 0>>}
Methods ==
    {Expr(0, Expr_Def(Some("m"), <<>>, <<>>, <<>>)), Err,
     Expr(1, Expr_Def(Some("m"), <<"a">>, <<StatNew(Stat_Error, 0)>>, <<>>))}

Level2Payloads ==
    {Expr_Call(e, <<d, Err>>) : e \in Core, d \in Core}
        \cup {Expr_Block(<<StatNew(Stat_Expr(e), 0), StatNew(Stat_Error, 1),
                           StatNew(Stat_Loop(Some(e), <<StatNew(Stat_Return(Some(e)), 1)>>), 0)>>) :
                e \in Core}
        \cup {Expr_Def(None, <<"a">>, <<StatNew(Stat_Expr(e), 1)>>, <<<<"c", e>>>>) : e \in Core}
        \cup {Expr_Const(Const_List(<<e, Err, d>>)) : e \in Core, d \in Sibs}
        \cup {Expr_Const(DictLiteral(<<<<e, Err>>, <<e, d>>>>)) : e \in Core, d \in Sibs}
        \cup {Expr_If(<<e, Err, e>>) : e \in Core}
Level2 == {Expr(0, v) : v \in Level2Payloads}

\* The Stat_ payloads the producer assembles.
Payloads ==
    {Stat_Continue, Stat_Break, Stat_Error, Stat_Return(None)}
        \cup {Stat_Expr(e) : e \in Leaves \cup Level1 \cup Level2}
        \cup {Stat_Return(Some(e)) : e \in Sibs \cup Core}
        \cup {Stat_Class("C", f, m) : f \in SeqsUpTo(Fields, MaxLen), m \in SeqsUpTo(Methods, MaxLen)}
        \cup {Stat_Loop(c, b) : c \in {None} \cup {Some(e) : e \in Sibs}, b \in Bodies}
        \cup {Stat_Loop(Some(e), <<StatNew(Stat_Expr(e), 1), StatNew(Stat_Error, 0)>>) : e \in Core}
        \cup {Stat_For(Id_a, i, b) : i \in Sibs, b \in Bodies}
        \cup {Stat_For(Expr(0, Expr_Infix("Comma", Id_a, Err)), e, <<StatNew(Stat_Expr(e), 0)>>) : e \in Core}

\* What the type allows and the producer never builds: dicts whose key and
\* value sequences differ in length, at the top and nested.
RawDicts ==
    {Const_Dict(k, v) : k \in SeqsUpTo({Id_a, Int_1}, MaxLen), v \in SeqsUpTo({Int_1, Err}, MaxLen)}
RawPayloads ==
    {Stat_Continue, Stat_Break, Stat_Error, Stat_Return(None)}
        \cup {Stat_Expr(Expr(l, Expr_Const(d))) : l \in Locs, d \in RawDicts}
        \cup {Stat_Return(Some(Expr(0, Expr_Const(Const_List(<<Expr(1, Expr_Const(d))>>))))) : d \in RawDicts}
        \cup {Stat_Loop(Some(Expr(0, Expr_Const(d))), <<StatNew(Stat_Error, 0)>>) : d \in RawDicts}

----------------------------------------------------------------------------
(* The state machine: the producer assembles a payload, Stat::new wraps    *)
(* it, and one of the three fmt implementations renders the node, its      *)
(* expression or its constant.                                             *)

NoVal == [tag |-> "none"]
NoStat == [tag |-> "none"]
NoShown == [kind |-> "none"]

Init ==
    /\ val = NoVal
    /\ loc = 0
    /\ stat = NoStat
    /\ shown = NoShown
    /\ out = ""
    /\ lit = None
    /\ other = NoStat
    /\ out2 = ""

\* The producer assembles a payload.
Produce ==
    /\ val = NoVal
    /\ \E v \in Payloads : val' = v
    /\ UNCHANGED <<loc, stat, shown, out, lit, other, out2>>

\* The producer reads a dict literal and assembles the statement holding it.
ParseDict ==
    /\ val = NoVal
    /\ \E p \in DictLits, l \in Locs :
          /\ lit' = Some(p)
          /\ val' = Stat_Expr(Expr(l, Expr_Const(DictLiteral(p))))
    /\ UNCHANGED <<loc, stat, shown, out, other, out2>>

\* A caller of the public enum assembles any payload the types allow.
ProduceRaw ==
    /\ val = NoVal
    /\ \E v \in RawPayloads : val' = v
    /\ UNCHANGED <<loc, stat, shown, out, lit, other, out2>>

\* Stat::new(val, loc)
New ==
    /\ val # NoVal
    /\ stat = NoStat
    /\ \E l \in Locs :
          /\ loc' = l
          /\ stat' = StatNew(val, l)
    /\ UNCHANGED <<val, shown, out, lit, other, out2>>

\* <Stat as Debug>::fmt on the node
FmtStat ==
    /\ stat # NoStat
    /\ shown = NoShown
    /\ shown' = [kind |-> "stat", node |-> stat]
    /\ out' = StatFmt(stat)
    /\ UNCHANGED <<val, loc, stat, lit, other, out2>>

\* <Expr as Debug>::fmt on an expression the node owns
FmtExpr ==
    /\ stat # NoStat
    /\ shown = NoShown
    /\ \E e \in StatChildExprs(stat.val) :
          /\ shown' = [kind |-> "expr", node |-> e]
          /\ out' = ExprFmt(e)
    /\ UNCHANGED <<val, loc, stat, lit, other, out2>>

\* <Const as Debug>::fmt on the constant of the node's expression
FmtConst ==
    /\ stat # NoStat
    /\ shown = NoShown
    /\ stat.val.tag = "Expr"
    /\ stat.val.expr.val.tag = "Const"
    /\ shown' = [kind |-> "const", node |-> stat.val.expr.val.const]
    /\ out' = ConstFmt(stat.val.expr.val.const)
    /\ UNCHANGED <<val, loc, stat, lit, other, out2>>

Next == Produce \/ ParseDict \/ New \/ FmtStat \/ FmtExpr \/ FmtConst

Spec == Init /\ [][Next]_vars

NextRaw == ProduceRaw \/ New \/ FmtStat \/ FmtExpr \/ FmtConst

SpecRaw == Init /\ [][NextRaw]_vars

----------------------------------------------------------------------------
(* Comparing two statements: both built and rendered side by side.         *)

PairLeaves ==
    {Id_a, Int_1, Err, Expr(0, Expr_Const(Const_Nil))}
        \cup {Expr(0, Expr_Const(Const_Str(s))) : s \in StrLits}
        \cup {Expr(0, Expr_Const(Const_Bool(b))) : b \in BOOLEAN}
        \cup {Expr(0, Expr_Const(Const_Float(x[1], x[2]))) : x \in FloatLits}
PairExprs ==
    PairLeaves
        \cup {Expr(0, Expr_Call(Id_a, a)) : a \in SeqsUpTo({Id_a, Int_1}, 1)}
        \cup {Expr(0, Expr_Index(Id_a, i)) :
                i \in {Id_a, Int_1} \cup
                      {Expr(0, Expr_Const(Const_List(a))) : a \in SeqsUpTo({Id_a, Int_1}, 1)}}
        \cup {Expr(0, Expr_Block(b)) : b \in SeqsUpTo({StatNew(Stat_Expr(Id_a), 0)}, 1)}
        \cup {Expr(0, Expr_Const(Const_List(a))) : a \in SeqsUpTo({Id_a, Int_1}, 1)}
        \cup {Expr(0, Expr_Const(Const_Set(a))) : a \in SeqsUpTo({Id_a, Int_1}, 1)}
        \cup {Expr(0, Expr_Prefix(op, Id_a)) : op \in OpPrefix}
        \cup {Expr(0, Expr_Infix(op, Id_a, Int_1)) : op \in {"Plus", "Minus"}}
PairStats ==
    {StatNew(v, 0) : v \in {Stat_Continue, Stat_Break, Stat_Error, Stat_Return(None)}}
        \cup {StatNew(Stat_Expr(e), 0) : e \in PairExprs}
        \cup {StatNew(Stat_Return(Some(e)), 0) : e \in {Id_a, Int_1}}

\* The producer builds two statements.
ProducePair ==
    /\ val = NoVal
    /\ \E s \in PairStats, t \in PairStats :
          /\ val' = s.val
          /\ loc' = s.loc
          /\ stat' = s
          /\ other' = t
    /\ UNCHANGED <<shown, out, lit, out2>>

\* <Stat as Debug>::fmt on each of the two
FmtPair ==
    /\ other # NoStat
    /\ shown = NoShown
    /\ shown' = [kind |-> "stat", node |-> stat]
    /\ out' = StatFmt(stat)
    /\ out2' = StatFmt(other)
    /\ UNCHANGED <<val, loc, stat, lit, other>>

NextPair == ProducePair \/ FmtPair

SpecPair == Init /\ [][NextPair]_vars

----------------------------------------------------------------------------
(* What the claims are stated with.                                        *)

\* Whether text sub occurs in text s.
IsInfix(sub, s) ==
    \E i \in 0 .. (Len(s) - Len(sub)) : SubSeq(s, i + 1, i + Len(sub)) = sub

\* Whether text s ends with text t.
EndsWith(s, t) ==
    Len(t) <= Len(s) /\ SubSeq(s, Len(s) - Len(t) + 1, Len(s)) = t

RECURSIVE CommaSep(_)
\* One entry per text, in order, a comma and a space between two.
CommaSep(texts) ==
    IF Len(texts) = 0 THEN ""
    ELSE IF Len(texts) = 1 THEN texts[1]
    ELSE CommaSep(SubSeq(texts, 1, Len(texts) - 1)) \o ", " \o texts[Len(texts)]

\* A name without quotes or backslashes, between double quotes.
Quoted(n) == "\"" \o n \o "\""

RECURSIVE RelocStat(_, _), RelocExpr(_, _), RelocConst(_, _)

\* The same tree with every location l replaced by f[l]: on the statement
\* nodes, on the expression nodes and on the class field entries.
RelocStat(s, f) ==
    LET v == s.val
        w == CASE v.tag = "Expr" -> Stat_Expr(RelocExpr(v.expr, f))
               [] v.tag = "Return" ->
                     Stat_Return(IF v.expr.some THEN Some(RelocExpr(v.expr.v, f)) ELSE None)
               [] v.tag = "Class" ->
                     Stat_Class(v.name,
                                [i \in 1 .. Len(v.fields) |-> <<v.fields[i][1], f[v.fields[i][2]]>>],
                                [i \in 1 .. Len(v.methods) |-> RelocExpr(v.methods[i], f)])
               [] v.tag = "Loop" ->
                     Stat_Loop(IF v.cond.some THEN Some(RelocExpr(v.cond.v, f)) ELSE None,
                               [i \in 1 .. Len(v.body) |-> RelocStat(v.body[i], f)])
               [] v.tag = "For" ->
                     Stat_For(RelocExpr(v.vars, f), RelocExpr(v.iter, f),
                              [i \in 1 .. Len(v.body) |-> RelocStat(v.body[i], f)])
               [] OTHER -> v
    IN  [loc |-> f[s.loc], val |-> w]

RelocExpr(e, f) ==
    LET v == e.val
        w == CASE v.tag = "Block" -> Expr_Block([i \in 1 .. Len(v.stats) |-> RelocStat(v.stats[i], f)])
               [] v.tag = "If" -> Expr_If([i \in 1 .. Len(v.exprs) |-> RelocExpr(v.exprs[i], f)])
               [] v.tag = "Prefix" -> Expr_Prefix(v.op, RelocExpr(v.expr, f))
               [] v.tag = "Call" ->
                     Expr_Call(RelocExpr(v.expr, f), [i \in 1 .. Len(v.args) |-> RelocExpr(v.args[i], f)])
               [] v.tag = "Index" -> Expr_Index(RelocExpr(v.expr, f), RelocExpr(v.index, f))
               [] v.tag = "Infix" -> Expr_Infix(v.op, RelocExpr(v.lhs, f), RelocExpr(v.rhs, f))
               [] v.tag = "Def" ->
                     Expr_Def(v.name, v.decl,
                              [i \in 1 .. Len(v.body) |-> RelocStat(v.body[i], f)],
                              [i \in 1 .. Len(v.binds) |-> <<v.binds[i][1], RelocExpr(v.binds[i][2], f)>>])
               [] v.tag = "Parentheses" -> Expr_Parentheses(RelocExpr(v.expr, f))
               [] v.tag = "Const" -> Expr_Const(RelocConst(v.const, f))
               [] OTHER -> v
    IN  [loc |-> f[e.loc], val |-> w]

RelocConst(c, f) ==
    CASE c.tag = "List" -> Const_List([i \in 1 .. Len(c.elems) |-> RelocExpr(c.elems[i], f)])
      [] c.tag = "Set" -> Const_Set([i \in 1 .. Len(c.elems) |-> RelocExpr(c.elems[i], f)])
      [] c.tag = "Dict" ->
            Const_Dict([i \in 1 .. Len(c.keys) |-> RelocExpr(c.keys[i], f)],
                       [i \in 1 .. Len(c.vals) |-> RelocExpr(c.vals[i], f)])
      [] OTHER -> c

\* The node last rendered, rendered again / rendered with its locations moved.
FmtShown(sh) ==
    CASE sh.kind = "stat" -> StatFmt(sh.node)
      [] sh.kind = "expr" -> ExprFmt(sh.node)
      [] sh.kind = "const" -> ConstFmt(sh.node)
RelocShown(sh, f) ==
    CASE sh.kind = "stat" -> [sh EXCEPT !.node = RelocStat(sh.node, f)]
      [] sh.kind = "expr" -> [sh EXCEPT !.node = RelocExpr(sh.node, f)]
      [] sh.kind = "const" -> [sh EXCEPT !.node = RelocConst(sh.node, f)]

\* The expression and statement nodes strictly below the node last rendered.
ExprsBelowShown ==
    CASE shown.kind = "stat" -> ExprsUnderStat(shown.node)
      [] shown.kind = "expr" -> ExprsUnderExpr(shown.node) \ {shown.node}
      [] shown.kind = "const" ->
            UNION {ExprsUnderExpr(e) : e \in ConstChildExprs(shown.node)}
      [] OTHER -> {}
StatsBelowShown ==
    CASE shown.kind = "stat" -> StatsUnderStat(shown.node) \ {shown.node}
      [] shown.kind = "expr" -> StatsUnderExpr(shown.node)
      [] shown.kind = "const" ->
            UNION {StatsUnderExpr(e) : e \in ConstChildExprs(shown.node)}
      [] OTHER -> {}

----------------------------------------------------------------------------
(* The claims.                                                             *)

\* C1: the rendered text depends on the payloads only.  Whatever the
\* locations on the statement nodes, the expression nodes and the class
\* field entries are replaced by, the tree renders to the text it rendered to
\* before; with the locations left as they are this is rendering the same
\* tree twice.
C1_LocNeverRendered ==
    shown.kind # "none" =>
        \A f \in [Locs -> Locs] : FmtShown(RelocShown(shown, f)) = out

\* A class declaration rendered whose statement node, field entries and
\* method expressions carry different locations.
C1_Witness ==
    /\ shown.kind = "stat"
    /\ shown.node.val.tag = "Class"
    /\ shown.node.loc = 1
    /\ Len(shown.node.val.fields) = 2
    /\ shown.node.val.fields[1][2] # shown.node.val.fields[2][2]
    /\ Len(shown.node.val.methods) = 2
    /\ shown.node.val.methods[1].loc # shown.node.val.methods[2].loc
    /\ \E f \in [Locs -> Locs] : RelocShown(shown, f) # shown

IfChainEntries(v, n, hasElse) ==
    [i \in 1 .. (2 * n + (IF hasElse THEN 1 ELSE 0)) |-> ExprFmt(v[i])]

\* C4: an `if` chain of N >= 1 condition/body pairs renders, after the
\* label, a list of exactly 2N entries, or 2N+1 with a trailing else: the
\* renderings of condition 1, body 1, ..., condition N, body N and the else
\* body, in the stored order, none dropped, merged or nested.
C4_IfChainFlat ==
    (shown.kind = "expr" /\ shown.node.val.tag = "If") =>
        \A n \in 1 .. (MaxPairs + 1), hasElse \in BOOLEAN :
            Len(shown.node.val.exprs) = 2 * n + (IF hasElse THEN 1 ELSE 0) =>
                /\ Len(IfChainEntries(shown.node.val.exprs, n, hasElse))
                      = Len(shown.node.val.exprs)
                /\ out = "(\"if\", [" \o CommaSep(IfChainEntries(shown.node.val.exprs, n, hasElse)) \o "])"

\* A chain of MaxPairs pairs with an else rendered, an Error among its bodies.
C4_Witness ==
    /\ shown.kind = "expr"
    /\ shown.node.val.tag = "If"
    /\ Len(shown.node.val.exprs) = 2 * MaxPairs + 1
    /\ shown.node.val.exprs[1] = Id_a
    /\ shown.node.val.exprs[2] = Err
    /\ shown.node.val.exprs[2 * MaxPairs + 1] = Id_a
    /\ Len(out) > Len("(\"if\", [])")

\* The texts of the parameters, the body and the captures of definition d.
DefThree(d) == <<VecStringDebug(d.decl), VecStatDebug(d.body), BindsDebug(d.binds)>>

\* C5: a function definition without a name renders as def with three fields
\* (parameters, body, captures), one with a name as def with four, the name
\* first; whatever the name, the two renderings differ.
C5_AnonymousDefDistinct ==
    (shown.kind = "expr" /\ shown.node.val.tag = "Def") =>
        LET d == shown.node.val
            anon == "def(" \o CommaSep(DefThree(d)) \o ")"
            named(n) == "def(" \o CommaSep(<<Quoted(n)>> \o DefThree(d)) \o ")"
            asAnon == ExprFmt(Expr(shown.node.loc, Expr_Def(None, d.decl, d.body, d.binds)))
            asNamed(n) == ExprFmt(Expr(shown.node.loc, Expr_Def(Some(n), d.decl, d.body, d.binds)))
        IN  /\ out = (IF d.name.some THEN named(d.name.v) ELSE anon)
            /\ asAnon = anon
            /\ \A n \in Names \cup {"", "m"} : asNamed(n) = named(n) /\ asNamed(n) # asAnon

\* An anonymous definition with a parameter, a body and a capture rendered.
C5_Witness ==
    /\ shown.kind = "expr"
    /\ shown.node.val.tag = "Def"
    /\ shown.node.val.name = None
    /\ Len(shown.node.val.decl) > 0
    /\ Len(shown.node.val.body) > 0
    /\ Len(shown.node.val.binds) > 0
    /\ out # ""

C7_ClassOrder ==
    (shown.kind = "stat" /\ shown.node.val.tag = "Class") =>
        LET c == shown.node.val IN
        out = "class(" \o Quoted(c.name)
                \o ", [" \o CommaSep([i \in 1 .. Len(c.fields) |-> Quoted(c.fields[i][1])])
                \o "], [" \o CommaSep([i \in 1 .. Len(c.methods) |-> ExprFmt(c.methods[i])])
                \o "])"

\* A class rendered whose two fields have the same name and whose two
\* methods differ.
C7_Witness ==
    /\ shown.kind = "stat"
    /\ shown.node.val.tag = "Class"
    /\ Len(shown.node.val.fields) = 2
    /\ shown.node.val.fields[1][1] = shown.node.val.fields[2][1]
    /\ Len(shown.node.val.methods) = 2
    /\ shown.node.val.methods[1] # shown.node.val.methods[2]
    /\ IsInfix("[\"a\", \"a\"]", out)

\* C8: Stat::new returns, for every payload and every location, the node
\* whose val is the payload given and whose loc is the location given; an
\* Error payload and a payload holding an unbalanced dict are taken as they
\* are.
C8_NewKeepsArguments ==
    /\ val # NoVal => \A l \in Locs : StatNew(val, l).val = val /\ StatNew(val, l).loc = l
    /\ stat # NoStat => stat.val = val /\ stat.loc = loc

\* A node built at location 1 from a payload with a nested unbalanced dict.
C8_Witness ==
    /\ stat # NoStat
    /\ stat.loc = 1
    /\ val.tag = "Return"
    /\ ~Balanced(val)
    /\ stat.val = val

\* The rendering of each statement of b / each expression of v, in order.
StatTexts(b) == [i \in 1 .. Len(b) |-> StatFmt(b[i])]
ExprTexts(v) == [i \in 1 .. Len(v) |-> ExprFmt(v[i])]

\* C9: an ordered child sequence renders one entry per element in the stored
\* order: the statements of a block, a loop body, a for body and a function
\* body, the arguments of a call (none: an empty group), the elements of a
\* list and of a set, equal elements included.
C9_SequencesInOrder ==
    /\ (shown.kind = "stat" /\ shown.node.val.tag = "Loop") =>
          EndsWith(out, ", [" \o CommaSep(StatTexts(shown.node.val.body)) \o "])")
    /\ (shown.kind = "stat" /\ shown.node.val.tag = "For") =>
          EndsWith(out, ", \"do\", [" \o CommaSep(StatTexts(shown.node.val.body)) \o "])")
    /\ (shown.kind = "expr" /\ shown.node.val.tag = "Block") =>
          out = "[" \o CommaSep(StatTexts(shown.node.val.stats)) \o "]"
    /\ (shown.kind = "expr" /\ shown.node.val.tag = "Def") =>
          IsInfix("], [" \o CommaSep(StatTexts(shown.node.val.body)) \o "], [", out)
    /\ (shown.kind = "expr" /\ shown.node.val.tag = "Call") =>
          /\ EndsWith(out, ", [" \o CommaSep(ExprTexts(shown.node.val.args)) \o "])")
          /\ Len(shown.node.val.args) = 0 => EndsWith(out, ", [])")
    /\ (shown.kind = "const" /\ shown.node.tag = "List") =>
          out = "[" \o CommaSep(ExprTexts(shown.node.elems)) \o "]"
    /\ (shown.kind = "const" /\ shown.node.tag = "Set") =>
          out = "{" \o CommaSep(ExprTexts(shown.node.elems)) \o "}"

\* A set literal of two equal elements rendered with both.
C9_Witness ==
    /\ shown.kind = "const"
    /\ shown.node.tag = "Set"
    /\ Len(shown.node.elems) = 2
    /\ shown.node.elems[1] = shown.node.elems[2]
    /\ out = "{\"a\", \"a\"}"

\* C10: a dict renders as many entries as the shorter of its two sequences
\* has elements, entry i pairing key i with value i; the elements past that
\* length are not written, so the text is that of the dict cut to that
\* length and of every dict that differs only past it.
C10_DictZipTruncates ==
    (shown.kind = "const" /\ shown.node.tag = "Dict") =>
        LET k == shown.node.keys
            v == shown.node.vals
            m == Min(Len(k), Len(v))
        IN  /\ out = "{" \o CommaSep([i \in 1 .. m |->
                              ExprFmt(k[i]) \o ": " \o ExprFmt(v[i])]) \o "}"
            /\ ConstFmt(Const_Dict(SubSeq(k, 1, m), SubSeq(v, 1, m))) = out
            /\ \A d \in RawDicts :
                  ( /\ Min(Len(d.keys), Len(d.vals)) = m
                    /\ SubSeq(d.keys, 1, m) = SubSeq(k, 1, m)
                    /\ SubSeq(d.vals, 1, m) = SubSeq(v, 1, m) ) => ConstFmt(d) = out

\* A dict of two keys and one value rendered with one entry.
C10_Witness ==
    /\ shown.kind = "const"
    /\ shown.node.tag = "Dict"
    /\ Len(shown.node.keys) = 2
    /\ Len(shown.node.vals) = 1
    /\ out = "{\"a\": 1}"

\* The same statement with every location set to 0.
Erase(s) == RelocStat(s, [l \in Locs |-> 0])

\* C2: two statements that differ in shape, in an operator or in a literal
\* value render to different texts.
C2_Injective ==
    (shown.kind = "stat" /\ other # NoStat /\ Erase(stat) # Erase(other)) => out # out2

====
